---- MODULE Spec2Model ----
(***************************************************************************)
(* mkcdda: WAV -> CDDA (disc.bin / disc.cue) converter, src/main.c.        *)
(*                                                                         *)
(* The model follows main() and parse_wav() statement by statement.  Files *)
(* are described by their byte layout (12-byte RIFF header, then chunks of *)
(* 8 header bytes + csize body bytes + one pad byte when csize is odd) and *)
(* a length flen, so that every fread / fseek of the code is computed on   *)
(* byte offsets.  Payload bytes are not enumerated one by one: a run of    *)
(* bytes is an extent [src, ofs, len] naming the input it was read from    *)
(* and the offset of its first byte; src = 0 is a run of zero bytes and    *)
(* src = -1 a run of indeterminate bytes (an uninitialised buffer).        *)
(* unsigned long / long are 64 bit (LP64): a 32-bit chunk size never       *)
(* overflows them.                                                         *)
(***************************************************************************)
EXTENDS Integers, Sequences, FiniteSets, TLC

\* ------------------------------------------------------------ constants
SECTOR == 2352
BUFSZ == 8192
FMBUF == 40
FMT_MIN == 16
HDR12 == 12
CHDR == 8
FPS == 75
SPM == 60

\* ---------------------------------------------------------------- bounds
\* the largest number of input paths on the command line
MaxTracks == 2
\* the sector indices 0..MaxSector are converted by SpecTime
MaxSector == 9100

Min(a, b) == IF a < b THEN a ELSE b

\* ------------------------------------------------------- little endian
rd_le_u16(b, at) == (b[at + 1] + b[at + 2] * 256) % 65536

rd_le_u32(b, at) ==
    b[at + 1] + b[at + 2] * 256 + b[at + 3] * 65536 + b[at + 4] * 16777216

\* the bytes a WAV writer stores for a 16- and a 32-bit field
Le16(v) == <<v % 256, (v \div 256) % 256>>
Le32(v) == <<v % 256, (v \div 256) % 256, (v \div 65536) % 256, (v \div 16777216) % 256>>

\* the first 16 bytes of a format chunk body: tag, channels, sample rate,
\* byte rate, block align, bits per sample
FmtBody(af, ch, sr, bps) ==
    Le16(af) \o Le16(ch) \o Le32(sr) \o Le32(sr * ch * (bps \div 8))
        \o Le16(ch * (bps \div 8)) \o Le16(bps)

SubSeqTo(s, n) == SubSeq(s, 1, Min(n, Len(s)))

\* ----------------------------------------------------------- timecodes
DigitChar(d) ==
    CASE d = 0 -> "0" [] d = 1 -> "1" [] d = 2 -> "2" [] d = 3 -> "3"
      [] d = 4 -> "4" [] d = 5 -> "5" [] d = 6 -> "6" [] d = 7 -> "7"
      [] d = 8 -> "8" [] d = 9 -> "9"

RECURSIVE Dec(_)
Dec(n) == IF n < 10 THEN <<DigitChar(n)>> ELSE Dec(n \div 10) \o <<DigitChar(n % 10)>>

\* printf %02lu / %02d: decimal, zero padded to a minimum width of 2
Fmt02(n) == IF n < 10 THEN <<"0">> \o Dec(n) ELSE Dec(n)

\* lines 20-22 with the seconds not reduced modulo 60
mmssff_no_mod(sectors) ==
    LET minutes == sectors \div (FPS * SPM)
        seconds == sectors \div FPS
        frames  == sectors % FPS
    IN  Fmt02(minutes) \o <<":">> \o Fmt02(seconds) \o <<":">> \o Fmt02(frames)

\* lines 19-24; the result is the string sprintf leaves in out
mmssff_from_sectors(sectors) ==
    LET minutes == sectors \div (FPS * SPM)
        seconds == (sectors \div FPS) % SPM
        frames  == sectors % FPS
    IN  Fmt02(minutes) \o <<":">> \o Fmt02(seconds) \o <<":">> \o Fmt02(frames)

\* ------------------------------------------------------------ extents
Ext(src, ofs, len) == [src |-> src, ofs |-> ofs, len |-> len]

RECURSIVE ExtLen(_)
ExtLen(es) == IF es = <<>> THEN 0 ELSE Head(es).len + ExtLen(Tail(es))

\* the first n bytes of a run
ExtHead(e, n) == Ext(e.src, e.ofs, n)
\* a run without its first n bytes
ExtTail(e, n) == Ext(e.src, IF e.src > 0 THEN e.ofs + n ELSE e.ofs, e.len - n)

RECURSIVE Take(_, _)
Take(es, n) ==
    IF n <= 0 \/ es = <<>> THEN <<>>
    ELSE IF Head(es).len <= n THEN <<Head(es)>> \o Take(Tail(es), n - Head(es).len)
    ELSE <<ExtHead(Head(es), n)>>

RECURSIVE Drop(_, _)
Drop(es, n) ==
    IF es = <<>> THEN <<>>
    ELSE IF n <= 0 THEN es
    ELSE IF Head(es).len <= n THEN Drop(Tail(es), n - Head(es).len)
    ELSE <<ExtTail(Head(es), n)>> \o Tail(es)

\* fread(buf, 1, n, fin) at file offset ofs of input src: the first n bytes
\* of buf are replaced, the rest of buf is kept
ReadInto(b, src, ofs, n) == IF n = 0 THEN b ELSE <<Ext(src, ofs, n)>> \o Drop(b, n)

\* memset(buf, 0, sizeof(buf))
ZeroBuf == <<Ext(0, 0, BUFSZ)>>
\* unsigned char buf[8192]; without an initialiser
UninitBuf == <<Ext(-1, 0, BUFSZ)>>

\* ------------------------------------------------------- input files
FmtChunk(csize, body) == [tag |-> "fmt ", csize |-> csize, body |-> SubSeqTo(body, csize)]
DataChunk(csize) == [tag |-> "data", csize |-> csize, body |-> <<>>]
ListChunk(csize) == [tag |-> "LIST", csize |-> csize, body |-> <<>>]
\* what eight bytes that are no chunk header decode to
JunkChunk == [tag |-> "junk", csize |-> 0, body |-> <<>>]

\* bytes a chunk occupies: header, body, pad byte of an odd body
Footprint(c) == CHDR + c.csize + (c.csize % 2)

RECURSIVE ChunkStart(_, _)
ChunkStart(chunks, k) ==
    IF k = 1 THEN HDR12 ELSE ChunkStart(chunks, k - 1) + Footprint(chunks[k - 1])

LayoutEnd(chunks) == ChunkStart(chunks, Len(chunks) + 1)

\* a regular file holding the chunks, its last cut bytes missing
WavFile(chunks, cut) ==
    [exists |-> TRUE, seekable |-> TRUE, riff |-> "RIFF", form |-> "WAVE",
     chunks |-> chunks, flen |-> LayoutEnd(chunks) - cut]

CD == FmtBody(1, 2, 44100, 16)

Catalogue ==
    << \* 1: 4700 payload bytes, two sectors
       WavFile(<<FmtChunk(16, CD), DataChunk(4700)>>, 0),
       \* 2: exactly one sector
       WavFile(<<FmtChunk(16, CD), DataChunk(2352)>>, 0),
       \* 3: odd chunk sizes, two format chunks, payload one byte over the
       \*    copy buffer, a chunk after the data chunk
       WavFile(<<ListChunk(5), FmtChunk(16, FmtBody(1, 2, 48000, 16)),
                 FmtChunk(18, CD \o <<0, 0>>), DataChunk(8193), ListChunk(10)>>, 0),
       \* 4: data chunks before a format chunk longer than fmbuf
       WavFile(<<DataChunk(1), DataChunk(3), FmtChunk(41, CD)>>, 0),
       \* 5: an empty payload
       WavFile(<<FmtChunk(16, CD), DataChunk(0)>>, 0),
       \* 6: 48 kHz
       WavFile(<<FmtChunk(16, FmtBody(1, 2, 48000, 16)), DataChunk(4700)>>, 0),
       \* 7: the data chunk declares 10000 bytes, 9000 are there
       WavFile(<<FmtChunk(16, CD), DataChunk(10000)>>, 1000),
       \* 8: 48 kHz and a truncated data chunk
       WavFile(<<FmtChunk(16, FmtBody(1, 2, 48000, 16)), DataChunk(4700)>>, 100),
       \* 9: a 14-byte format chunk
       WavFile(<<FmtChunk(14, CD), DataChunk(2352), ListChunk(4)>>, 0),
       \* 10: RIFF, but not WAVE
       [WavFile(<<FmtChunk(16, CD), DataChunk(2352)>>, 0) EXCEPT !.form = "AVI "],
       \* 11: five bytes
       [WavFile(<<>>, 0) EXCEPT !.flen = 5],
       \* 12: the file ends inside the format chunk body
       WavFile(<<FmtChunk(16, CD)>>, 6),
       \* 13: a truncated data chunk and no format chunk
       WavFile(<<DataChunk(4700)>>, 100),
       \* 14: no such file
       [WavFile(<<>>, 0) EXCEPT !.exists = FALSE],
       \* 15: file 1 read through a pipe
       [WavFile(<<FmtChunk(16, CD), DataChunk(4700)>>, 0) EXCEPT !.seekable = FALSE],
       \* 16: mono
       WavFile(<<FmtChunk(16, FmtBody(1, 1, 44100, 16)), DataChunk(2352)>>, 0),
       \* 17: 8 bit
       WavFile(<<FmtChunk(16, FmtBody(1, 2, 44100, 8)), DataChunk(2352)>>, 0),
       \* 18: IEEE float
       WavFile(<<FmtChunk(16, FmtBody(3, 2, 44100, 16)), DataChunk(2352)>>, 0),
       \* 19: a data chunk truncated inside the first buffer
       WavFile(<<FmtChunk(16, CD), DataChunk(2352)>>, 2000)
    >>

FileIds == 1..Len(Catalogue)

RECURSIVE SeqsUpTo(_, _)
SeqsUpTo(S, n) ==
    IF n = 0 THEN {<<>>}
    ELSE LET shorter == SeqsUpTo(S, n - 1)
         IN  shorter \cup {Append(s, x) : s \in {t \in shorter : Len(t) = n - 1}, x \in S}

\* the chunk header fread(chdr, 1, 8, f) finds at offset p
HeaderAt(f, p) ==
    LET ks == {k \in 1..Len(f.chunks) : ChunkStart(f.chunks, k) = p}
    IN  IF ks = {} THEN JunkChunk ELSE f.chunks[CHOOSE k \in ks : TRUE]

\* -------------------------------------------------------------- state
VARIABLES
    argv,                  \* the input paths, as indices into Catalogue
    pc,                    \* where main() is
    i,                     \* the loop counter of main(), 0-based
    index_times,           \* index_times[i + 1] is the C index_times[i]
    total_sectors_before,
    cursor,                \* the file position of the open input
    got_fmt, got_data,
    audioFormat, numChannels, sampleRate, bitsPerSample,
    data_ofs, data_size,
    scanned,               \* the offsets at which parse_wav read a chunk header
    remaining, pad_bytes,
    buf,                   \* the copy buffer of main(), as extents
    fbin,                  \* disc.bin: "absent" or "created"
    image,                 \* the bytes fwrite has appended to disc.bin
    fcue,                  \* disc.cue: "absent" or "created"
    cue,                   \* the lines fwrite has appended to disc.cue
    cue_lost,              \* whether an fwrite to disc.cue failed
    opened,                \* the inputs fopen has opened, in order
    exit_status,           \* -1 while running, then main()'s return value
    err,                   \* the diagnostic written to stderr
    ts_in, ts_out          \* SpecTime: a sector index and its timecode

vars == <<argv, pc, i, index_times, total_sectors_before, cursor, got_fmt,
          got_data, audioFormat, numChannels, sampleRate, bitsPerSample,
          data_ofs, data_size, scanned, remaining, pad_bytes, buf, fbin,
          image, fcue, cue, cue_lost, opened, exit_status, err, ts_in, ts_out>>

parseVars == <<cursor, got_fmt, got_data, audioFormat, numChannels, sampleRate,
               bitsPerSample, data_ofs, data_size, scanned>>
copyVars == <<remaining, pad_bytes, buf>>
outVars == <<fbin, image, fcue, cue, cue_lost>>
tsVars == <<ts_in, ts_out>>

ntracks == Len(argv)
\* the file behind argv[1 + i]
wav == Catalogue[argv[i + 1]]

\* the state main() starts in
InitMain ==
    /\ pc = "start"
    /\ i = 0
    /\ index_times = <<>>
    /\ total_sectors_before = 0
    /\ cursor = 0
    /\ got_fmt = FALSE /\ got_data = FALSE
    /\ audioFormat = 0 /\ numChannels = 0 /\ sampleRate = 0 /\ bitsPerSample = 0
    /\ data_ofs = 0 /\ data_size = 0
    /\ scanned = <<>>
    /\ remaining = 0 /\ pad_bytes = 0
    /\ buf = UninitBuf
    /\ fbin = "absent" /\ image = <<>>
    /\ fcue = "absent" /\ cue = <<>> /\ cue_lost = FALSE
    /\ opened = <<>>
    /\ exit_status = -1
    /\ err = "none"

Init ==
    /\ argv \in SeqsUpTo(FileIds, MaxTracks)
    /\ InitMain
    /\ ts_in = 0 /\ ts_out = <<>>

\* return 1 from main() after the diagnostic kind; the streams that are open
\* are closed, the files stay
Return1(kind) ==
    /\ pc' = "done"
    /\ exit_status' = 1
    /\ err' = kind

\* line 117 with the bound off by one
TooFewArgsOffByOne(argc) == argc < 1

\* line 117
TooFewArgs(argc) == argc < 2

\* lines 117-123
CheckArgs ==
    /\ pc = "start"
    /\ IF TooFewArgs(ntracks + 1)
       THEN Return1("usage")
       ELSE pc' = "open_bin" /\ UNCHANGED <<exit_status, err>>
    /\ UNCHANGED <<argv, i, index_times, total_sectors_before, parseVars,
                   copyVars, outVars, opened, tsVars>>

\* lines 124-128
OpenBin ==
    /\ pc = "open_bin"
    /\ \E ok \in BOOLEAN :
          IF ok
          THEN /\ fbin' = "created" /\ image' = <<>>
               /\ pc' = "malloc"
               /\ UNCHANGED <<exit_status, err>>
          ELSE /\ Return1("open_bin")
               /\ UNCHANGED <<fbin, image>>
    /\ UNCHANGED <<argv, i, index_times, total_sectors_before, parseVars,
                   copyVars, fcue, cue, cue_lost, opened, tsVars>>

\* lines 130-136; the array's elements are indeterminate (-1)
AllocIndex ==
    /\ pc = "malloc"
    /\ \E ok \in BOOLEAN :
          IF ok
          THEN /\ index_times' = [k \in 1..ntracks |-> -1]
               /\ pc' = "loop"
               /\ UNCHANGED <<exit_status, err>>
          ELSE /\ Return1("oom")
               /\ UNCHANGED index_times
    /\ UNCHANGED <<argv, i, total_sectors_before, parseVars, copyVars, outVars,
                   opened, tsVars>>

\* lines 138-151 and 29-31: the loop test, fopen(wav), the locals of the
\* iteration and of parse_wav
OpenWav ==
    /\ pc = "loop"
    /\ i < ntracks
    /\ IF wav.exists
       THEN /\ opened' = Append(opened, i + 1)
            /\ cursor' = 0
            /\ data_ofs' = 0 /\ data_size' = 0
            /\ got_fmt' = FALSE /\ got_data' = FALSE
            /\ audioFormat' = 0 /\ numChannels' = 0
            /\ sampleRate' = 0 /\ bitsPerSample' = 0
            /\ scanned' = <<>>
            /\ buf' = UninitBuf
            /\ pc' = "riff"
            /\ UNCHANGED <<exit_status, err>>
       ELSE /\ Return1("open_wav")
            /\ UNCHANGED <<opened, parseVars, buf>>
    /\ UNCHANGED <<argv, i, index_times, total_sectors_before, remaining,
                   pad_bytes, outVars, tsVars>>

\* lines 33-40
ReadRiffHeader ==
    /\ pc = "riff"
    /\ IF wav.flen < HDR12
       THEN /\ cursor' = wav.flen
            /\ Return1("riff_header")
       ELSE /\ cursor' = HDR12
            /\ IF wav.riff # "RIFF" \/ wav.form # "WAVE"
               THEN Return1("not_riff_wave")
               ELSE pc' = "scan" /\ UNCHANGED <<exit_status, err>>
    /\ UNCHANGED <<argv, i, index_times, total_sectors_before, got_fmt, got_data,
                   audioFormat, numChannels, sampleRate, bitsPerSample, data_ofs,
                   data_size, scanned, copyVars, outVars, opened, tsVars>>

\* ----------------------------------------------------------- parse_wav
\* lines 66, 78, 86: csize & 1UL, the pad byte of an odd chunk
PadByte(csize) == csize % 2

\* fseek(f, off, SEEK_CUR) and ftell(f) fail on a stream that cannot seek;
\* on a regular file a seek past the end succeeds
CanSeek(f) == f.seekable

\* the state of parse_wav as a record, for one turn of its loop
ParseState ==
    [rc |-> "ok", cursor |-> cursor, got_fmt |-> got_fmt, got_data |-> got_data,
     audioFormat |-> audioFormat, numChannels |-> numChannels,
     sampleRate |-> sampleRate, bitsPerSample |-> bitsPerSample,
     data_ofs |-> data_ofs, data_size |-> data_size]

\* lines 66-69, 78-81, 86-89: skip the pad byte
SkipPad(f, st, csize) ==
    IF PadByte(csize) # 0
    THEN IF CanSeek(f) THEN [st EXCEPT !.cursor = @ + 1] ELSE [st EXCEPT !.rc = "fail"]
    ELSE st

\* lines 50-69: a format chunk whose body starts at q
FmtStep(f, st, h, q) ==
    LET csize == h.csize
        need  == Min(csize, FMBUF)
    IN  IF q + need > f.flen
        THEN [st EXCEPT !.rc = "fail", !.cursor = IF q < f.flen THEN f.flen ELSE q]
        ELSE LET s1 == IF csize >= FMT_MIN
                       THEN [st EXCEPT !.audioFormat = rd_le_u16(h.body, 0),
                                       !.numChannels = rd_le_u16(h.body, 2),
                                       !.sampleRate = rd_le_u32(h.body, 4),
                                       !.bitsPerSample = rd_le_u16(h.body, 14),
                                       !.got_fmt = TRUE]
                       ELSE st
                 s2 == [s1 EXCEPT !.cursor = q + need]
             IN  IF need < csize
                 THEN IF CanSeek(f)
                      THEN SkipPad(f, [s2 EXCEPT !.cursor = @ + (csize - need)], csize)
                      ELSE [s2 EXCEPT !.rc = "fail"]
                 ELSE SkipPad(f, s2, csize)

\* lines 70-82: a data chunk whose body starts at q
DataStep(f, st, h, q) ==
    IF ~CanSeek(f)
    THEN [st EXCEPT !.rc = "fail", !.cursor = q]
    ELSE LET s1 == [st EXCEPT !.data_ofs = q, !.data_size = h.csize,
                              !.cursor = q + h.csize]
             s2 == SkipPad(f, s1, h.csize)
         IN  IF s2.rc = "ok" THEN [s2 EXCEPT !.got_data = TRUE] ELSE s2

\* lines 83-90: any other chunk
OtherStep(f, st, h, q) ==
    IF ~CanSeek(f)
    THEN [st EXCEPT !.rc = "fail", !.cursor = q]
    ELSE SkipPad(f, [st EXCEPT !.cursor = q + h.csize], h.csize)

\* lines 46-90: one chunk, its header at st.cursor
ChunkStep(f, st) ==
    LET h == HeaderAt(f, st.cursor)
        q == st.cursor + CHDR
    IN  IF h.tag = "fmt " THEN FmtStep(f, st, h, q)
        ELSE IF h.tag = "data" THEN DataStep(f, st, h, q)
        ELSE OtherStep(f, st, h, q)

\* line 92 without its break: the scan runs to the end of the file
ScanCompleteNever(gf, gd) == FALSE

\* line 92
ScanComplete(gf, gd) == gf /\ gd

\* lines 100-101 without the sample rate
FormatOkAnyRate(af, nc, sr, bps) == af = 1 /\ nc = 2 /\ bps = 16

\* lines 100-101
FormatOk(af, nc, sr, bps) == af = 1 /\ nc = 2 /\ sr = 44100 /\ bps = 16

SetParse(st) ==
    /\ cursor' = st.cursor
    /\ got_fmt' = st.got_fmt /\ got_data' = st.got_data
    /\ audioFormat' = st.audioFormat /\ numChannels' = st.numChannels
    /\ sampleRate' = st.sampleRate /\ bitsPerSample' = st.bitsPerSample
    /\ data_ofs' = st.data_ofs /\ data_size' = st.data_size

\* lines 42-94: one turn of for (;;)
ScanChunk ==
    /\ pc = "scan"
    /\ IF cursor + CHDR > wav.flen
       THEN \* fread(chdr, 1, 8, f) != 8: break
            /\ SetParse([ParseState EXCEPT
                            !.cursor = IF cursor < wav.flen THEN wav.flen ELSE cursor])
            /\ pc' = "check"
            /\ UNCHANGED <<scanned, exit_status, err>>
       ELSE LET st == ChunkStep(wav, ParseState)
            IN  /\ SetParse(st)
                /\ scanned' = Append(scanned, cursor)
                /\ IF st.rc = "fail"
                   THEN Return1("parse_io")
                   ELSE /\ pc' = IF ScanComplete(st.got_fmt, st.got_data)
                                 THEN "check" ELSE "scan"
                        /\ UNCHANGED <<exit_status, err>>
    /\ UNCHANGED <<argv, i, index_times, total_sectors_before, copyVars, outVars,
                   opened, tsVars>>

\* lines 96-105, and 153-160 of main(): the checks after the loop, the return
\* to main(), the start sector of the track
Validate ==
    /\ pc = "check"
    /\ IF ~got_fmt \/ ~got_data
       THEN Return1("missing_chunk") /\ UNCHANGED index_times
       ELSE IF ~FormatOk(audioFormat, numChannels, sampleRate, bitsPerSample)
       THEN Return1("unsupported_format") /\ UNCHANGED index_times
       ELSE /\ index_times' = [index_times EXCEPT ![i + 1] = total_sectors_before]
            /\ pc' = "seek"
            /\ UNCHANGED <<exit_status, err>>
    /\ UNCHANGED <<argv, i, total_sectors_before, parseVars, copyVars, outVars,
                   opened, tsVars>>

\* ------------------------------------------------------ sector assembly
\* a rewind where line 162 seeks to the payload
SeekSetRewind(ofs) == 0

\* line 162: the file position after fseek(fin, (long)data_ofs, SEEK_SET)
SeekSet(ofs) == ofs

\* lines 171-172 and 197-198: the size of the next transfer
ChunkLen(left) == IF left > BUFSZ THEN BUFSZ ELSE left

\* line 174 with the result of fread not compared
ShortReadIgnored(nread, chunk) == FALSE

\* line 174
ShortRead(nread, chunk) == nread # chunk

\* line 193 without its outer % SECTOR
PadBytesNoWrap(size) == SECTOR - (size % SECTOR)

\* line 193
PadBytes(size) == (SECTOR - (size % SECTOR)) % SECTOR

\* lines 209-210 with the sector count rounded down
PaddedSectorsFloor(size) == size \div SECTOR

\* lines 209-210: padded / SECTOR
PaddedSectors(size) == (size + ((SECTOR - (size % SECTOR)) % SECTOR)) \div SECTOR

\* lines 162-169
SeekData ==
    /\ pc = "seek"
    /\ \E ok \in BOOLEAN :
          IF ok
          THEN /\ cursor' = SeekSet(data_ofs)
               /\ remaining' = data_size
               /\ pc' = "copy"
               /\ UNCHANGED <<exit_status, err>>
          ELSE /\ Return1("seek")
               /\ UNCHANGED <<cursor, remaining>>
    /\ UNCHANGED <<argv, i, index_times, total_sectors_before, got_fmt, got_data,
                   audioFormat, numChannels, sampleRate, bitsPerSample, data_ofs,
                   data_size, scanned, pad_bytes, buf, outVars, opened, tsVars>>

\* lines 170-189: one turn of the copy loop
CopyChunk ==
    /\ pc = "copy"
    /\ remaining > 0
    /\ LET chunk == ChunkLen(remaining)
           avail == IF cursor < wav.flen THEN wav.flen - cursor ELSE 0
           nread == Min(chunk, avail)
           got   == ReadInto(buf, i + 1, cursor, nread)
       IN  /\ buf' = got
           /\ cursor' = cursor + nread
           /\ IF ShortRead(nread, chunk)
              THEN /\ Return1("short_read")
                   /\ UNCHANGED <<image, remaining>>
              ELSE \E ok \in BOOLEAN :
                      IF ok
                      THEN /\ image' = image \o Take(got, chunk)
                           /\ remaining' = remaining - chunk
                           /\ UNCHANGED <<pc, exit_status, err>>
                      ELSE \* fwrite returned less than chunk
                           /\ \E n \in {0, chunk - 1} : image' = image \o Take(got, n)
                           /\ Return1("write")
                           /\ UNCHANGED remaining
    /\ UNCHANGED <<argv, i, index_times, total_sectors_before, got_fmt, got_data,
                   audioFormat, numChannels, sampleRate, bitsPerSample, data_ofs,
                   data_size, scanned, pad_bytes, fbin, fcue, cue, cue_lost,
                   opened, tsVars>>

\* lines 190-195: the payload is copied; fclose(fin), pad_bytes, memset
CopyDone ==
    /\ pc = "copy"
    /\ remaining = 0
    /\ pad_bytes' = PadBytes(data_size)
    /\ buf' = IF PadBytes(data_size) # 0 THEN ZeroBuf ELSE buf
    /\ pc' = "pad"
    /\ UNCHANGED <<argv, i, index_times, total_sectors_before, parseVars,
                   remaining, outVars, opened, exit_status, err, tsVars>>

\* lines 196-206: one turn of the padding loop
PadWrite ==
    /\ pc = "pad"
    /\ pad_bytes > 0
    /\ LET chunk2 == ChunkLen(pad_bytes)
       IN  \E ok \in BOOLEAN :
              IF ok
              THEN /\ image' = image \o Take(buf, chunk2)
                   /\ pad_bytes' = pad_bytes - chunk2
                   /\ UNCHANGED <<pc, exit_status, err>>
              ELSE \* fwrite returned less than chunk2
                   /\ \E n \in {0, chunk2 - 1} : image' = image \o Take(buf, n)
                   /\ Return1("write_padding")
                   /\ UNCHANGED pad_bytes
    /\ UNCHANGED <<argv, i, index_times, total_sectors_before, parseVars,
                   remaining, buf, fbin, fcue, cue, cue_lost, opened, tsVars>>

\* lines 209-213 and the ++i of line 138
PadDone ==
    /\ pc = "pad"
    /\ pad_bytes = 0
    /\ total_sectors_before' = total_sectors_before + PaddedSectors(data_size)
    /\ i' = i + 1
    /\ pc' = "loop"
    /\ UNCHANGED <<argv, index_times, parseVars, copyVars, outVars, opened,
                   exit_status, err, tsVars>>

\* ------------------------------------------------------------ cue sheet
\* fwrite(line, 1, strlen(line), fcue): its result is not looked at; a write
\* that fails leaves the line out of the file
WriteCue(line, ok) ==
    /\ cue' = IF ok THEN Append(cue, line) ELSE cue
    /\ cue_lost' = (cue_lost \/ ~ok)

FileLine == <<"FILE \"", "disc.bin", "\" BINARY\n">>
TrackLine(n) == <<"  TRACK ">> \o Fmt02(n) \o <<" AUDIO\n">>
PregapLine == <<"    PREGAP 00:02:00\n">>
IndexLine(sectors) == <<"    INDEX 01 ">> \o mmssff_from_sectors(sectors) \o <<"\n">>

\* lines 138 and 215-221: the loop is over; fopen(cue_path)
OpenCue ==
    /\ pc = "loop"
    /\ i >= ntracks
    /\ \E ok \in BOOLEAN :
          IF ok
          THEN /\ fcue' = "created" /\ cue' = <<>>
               /\ pc' = "cue_file"
               /\ UNCHANGED <<exit_status, err>>
          ELSE /\ Return1("open_cue")
               /\ UNCHANGED <<fcue, cue>>
    /\ UNCHANGED <<argv, i, index_times, total_sectors_before, parseVars,
                   copyVars, fbin, image, cue_lost, opened, tsVars>>

\* lines 226-229
CueFile ==
    /\ pc = "cue_file"
    /\ \E ok \in BOOLEAN : WriteCue(FileLine, ok)
    /\ i' = 0
    /\ pc' = "cue_track"
    /\ UNCHANGED <<argv, index_times, total_sectors_before, parseVars, copyVars,
                   fbin, image, fcue, opened, exit_status, err, tsVars>>

\* lines 229-232
CueTrack ==
    /\ pc = "cue_track"
    /\ i < ntracks
    /\ \E ok \in BOOLEAN : WriteCue(TrackLine(i + 1), ok)
    /\ pc' = IF i = 0 THEN "cue_pregap" ELSE "cue_index"
    /\ UNCHANGED <<argv, i, index_times, total_sectors_before, parseVars,
                   copyVars, fbin, image, fcue, opened, exit_status, err, tsVars>>

\* lines 233-236
CuePregap ==
    /\ pc = "cue_pregap"
    /\ \E ok \in BOOLEAN : WriteCue(PregapLine, ok)
    /\ pc' = "cue_index"
    /\ UNCHANGED <<argv, i, index_times, total_sectors_before, parseVars,
                   copyVars, fbin, image, fcue, opened, exit_status, err, tsVars>>

\* lines 237-239 and the ++i of line 229
CueIndex ==
    /\ pc = "cue_index"
    /\ \E ok \in BOOLEAN : WriteCue(IndexLine(index_times[i + 1]), ok)
    /\ i' = i + 1
    /\ pc' = "cue_track"
    /\ UNCHANGED <<argv, index_times, total_sectors_before, parseVars, copyVars,
                   fbin, image, fcue, opened, exit_status, err, tsVars>>

\* lines 229 and 243-249
Finish ==
    /\ pc = "cue_track"
    /\ i >= ntracks
    /\ pc' = "done"
    /\ exit_status' = 0
    /\ UNCHANGED <<argv, i, index_times, total_sectors_before, parseVars,
                   copyVars, outVars, opened, err, tsVars>>

Next ==
    \/ CheckArgs \/ OpenBin \/ AllocIndex \/ OpenWav \/ ReadRiffHeader
    \/ ScanChunk \/ Validate \/ SeekData \/ CopyChunk \/ CopyDone \/ PadWrite
    \/ PadDone \/ OpenCue \/ CueFile \/ CueTrack \/ CuePregap \/ CueIndex
    \/ Finish

Spec == Init /\ [][Next]_vars

\* --------------------------------------------------------------------
\* What a container holds, read off its chunk list (not off the parser).
IsFmt16(c) == c.tag = "fmt " /\ c.csize >= FMT_MIN
IsData(c) == c.tag = "data"

\* chunks 1..m hold a format chunk of at least 16 bytes and a data chunk
BothBy(chunks, m) ==
    /\ \E a \in 1..m : IsFmt16(chunks[a])
    /\ \E b \in 1..m : IsData(chunks[b])

\* the first m with BothBy, 0 when there is none
StopIndex(chunks) ==
    LET ms == {m \in 1..Len(chunks) : BothBy(chunks, m)}
    IN  IF ms = {} THEN 0 ELSE CHOOSE m \in ms : \A n \in ms : m <= n

LastIx(chunks, P(_)) ==
    LET ks == {k \in 1..StopIndex(chunks) : P(chunks[k])}
    IN  CHOOSE k \in ks : \A n \in ks : n <= k

\* the payload of input k of the command line
PayloadOfs(k) ==
    LET cs == Catalogue[argv[k]].chunks IN ChunkStart(cs, LastIx(cs, IsData)) + CHDR
PayloadLen(k) ==
    LET cs == Catalogue[argv[k]].chunks IN cs[LastIx(cs, IsData)].csize

CeilSectors(n) == (n + SECTOR - 1) \div SECTOR

RECURSIVE SectorsBefore(_)
SectorsBefore(k) ==
    IF k <= 1 THEN 0 ELSE SectorsBefore(k - 1) + CeilSectors(PayloadLen(k - 1))

RECURSIVE PayloadBefore(_)
PayloadBefore(k) == IF k <= 1 THEN 0 ELSE PayloadBefore(k - 1) + PayloadLen(k - 1)

CuePhase == pc \in {"cue_file", "cue_track", "cue_pregap", "cue_index"}
Succeeded == pc = "done" /\ exit_status = 0

\* the number of inputs completely appended to the image, -1 inside a track
TracksDone ==
    IF pc = "loop" THEN i
    ELSE IF CuePhase \/ Succeeded THEN ntracks
    ELSE -1

\* adjacent runs that continue each other, merged
RECURSIVE Coalesce(_)
Coalesce(es) ==
    IF Len(es) < 2 THEN es
    ELSE LET a == es[1]
             b == es[2]
         IN  IF a.src = b.src /\ (a.src <= 0 \/ a.ofs + a.len = b.ofs)
             THEN Coalesce(<<Ext(a.src, a.ofs, a.len + b.len)>> \o SubSeq(es, 3, Len(es)))
             ELSE <<a>> \o Coalesce(Tail(es))

\* bytes [from, from + n) of the image
Slice(es, from, n) == Coalesce(Take(Drop(es, from), n))

C2_ImageLength ==
    TracksDone >= 0 =>
        /\ ExtLen(image) = total_sectors_before * SECTOR
        /\ ExtLen(image) % SECTOR = 0
        /\ ExtLen(image) >= PayloadBefore(TracksDone + 1)
        /\ \A k \in 1..TracksDone :
              LET grown == (SectorsBefore(k + 1) - SectorsBefore(k)) * SECTOR
                  pad   == PadBytes(PayloadLen(k))
              IN  /\ 0 <= pad /\ pad < SECTOR
                  /\ (PayloadLen(k) + pad) % SECTOR = 0
                  /\ grown = PayloadLen(k) + pad
        /\ ExtLen(image) = SectorsBefore(TracksDone + 1) * SECTOR

C2_Witness ==
    /\ pc = "loop"
    /\ i = 2
    /\ PayloadLen(1) = 4700 /\ PayloadLen(2) = 2352
    /\ ExtLen(image) = 7056

\* C3: for every track completely processed, the image bytes
\* [start_sector * 2352, start_sector * 2352 + payload_length) are the payload
\* bytes of that input's data chunk, in order, and the bytes from there to the
\* next sector boundary are zero.
C3_PayloadRoundTrip ==
    \A k \in 1..TracksDone :
        LET start == index_times[k] * SECTOR
            len   == PayloadLen(k)
            pad   == CeilSectors(len) * SECTOR - len
        IN  /\ Slice(image, start, len)
                  = IF len = 0 THEN <<>> ELSE <<Ext(k, PayloadOfs(k), len)>>
            /\ Slice(image, start + len, pad)
                  = IF pad = 0 THEN <<>> ELSE <<Ext(0, 0, pad)>>

C3_Witness ==
    /\ Succeeded
    /\ ntracks = 2
    /\ PayloadLen(1) = 8193 /\ PayloadOfs(1) = 84
    /\ PayloadLen(2) = 3 /\ PayloadOfs(2) = 30

\* ------------------------------------------------ timecodes on their own
\* sector indices past 99 minutes, where the minutes take three digits
ExtraSectors == {449999, 450000, 450075, 4499999}

InitTime ==
    /\ argv = <<>>
    /\ InitMain
    /\ ts_in \in (0..MaxSector) \cup ExtraSectors
    /\ ts_out = <<>>

\* mmssff_from_sectors(ts_in, ts)
Convert ==
    /\ ts_out = <<>>
    /\ ts_out' = mmssff_from_sectors(ts_in)
    /\ UNCHANGED <<argv, pc, i, index_times, total_sectors_before, parseVars,
                   copyVars, outVars, opened, exit_status, err, ts_in>>

NextTime == Convert

SpecTime == InitTime /\ [][NextTime]_vars

\* reading a timecode back
DigitVal(c) ==
    CASE c = "0" -> 0 [] c = "1" -> 1 [] c = "2" -> 2 [] c = "3" -> 3
      [] c = "4" -> 4 [] c = "5" -> 5 [] c = "6" -> 6 [] c = "7" -> 7
      [] c = "8" -> 8 [] c = "9" -> 9

IsDigits(ds) ==
    ds # <<>> /\ \A k \in 1..Len(ds) :
        ds[k] \in {"0", "1", "2", "3", "4", "5", "6", "7", "8", "9"}

RECURSIVE DecVal(_)
DecVal(ds) ==
    IF ds = <<>> THEN 0
    ELSE DecVal(SubSeq(ds, 1, Len(ds) - 1)) * 10 + DigitVal(ds[Len(ds)])

Colons(ts) == {k \in 1..Len(ts) : ts[k] = ":"}
FieldMM(ts) == SubSeq(ts, 1, (CHOOSE k \in Colons(ts) : \A n \in Colons(ts) : k <= n) - 1)
FieldSS(ts) ==
    LET a == CHOOSE k \in Colons(ts) : \A n \in Colons(ts) : k <= n
        b == CHOOSE k \in Colons(ts) : \A n \in Colons(ts) : n <= k
    IN  SubSeq(ts, a + 1, b - 1)
FieldFF(ts) ==
    SubSeq(ts, (CHOOSE k \in Colons(ts) : \A n \in Colons(ts) : n <= k) + 1, Len(ts))

\* C4: the timecode of sector index s reads back as MM:SS:FF with
\* MM * 4500 + SS * 75 + FF = s, FF in [0, 75), SS in [0, 60); every field is
\* decimal, zero padded to two digits (the minutes are longer from 100 on).
C4_Timecode ==
    ts_out # <<>> =>
        LET mm == FieldMM(ts_out)
            ss == FieldSS(ts_out)
            ff == FieldFF(ts_out)
        IN  /\ Cardinality(Colons(ts_out)) = 2
            /\ IsDigits(mm) /\ IsDigits(ss) /\ IsDigits(ff)
            /\ DecVal(mm) * 4500 + DecVal(ss) * 75 + DecVal(ff) = ts_in
            /\ DecVal(ff) >= 0 /\ DecVal(ff) < 75
            /\ DecVal(ss) >= 0 /\ DecVal(ss) < 60
            /\ Len(ss) = 2 /\ Len(ff) = 2
            /\ Len(mm) >= 2
            /\ DecVal(mm) < 100 => Len(mm) = 2
            /\ Len(mm) > 2 => mm[1] # "0"

C4_Witness ==
    /\ ts_in = 9074
    /\ ts_out = <<"0", "2", ":", "0", "0", ":", "7", "4">>

\* ------------------------------------------------------------- formats
\* the scan of f reaches a format chunk of at least 16 bytes and a data chunk:
\* f is a seekable RIFF/WAVE file and every chunk up to the one that completes
\* the pair has its header, and its body if it is a format chunk, in the file
Complete(f) ==
    /\ f.exists /\ f.seekable
    /\ f.flen >= HDR12 /\ f.riff = "RIFF" /\ f.form = "WAVE"
    /\ StopIndex(f.chunks) > 0
    /\ \A m \in 1..StopIndex(f.chunks) :
          LET c == f.chunks[m]
              at == ChunkStart(f.chunks, m)
          IN  /\ at + CHDR <= f.flen
              /\ c.tag = "fmt " => at + CHDR + Min(c.csize, FMBUF) <= f.flen

\* the body of the format chunk the scan of f ends with
CarriedFmt(f) == f.chunks[LastIx(f.chunks, IsFmt16)].body

\* PCM, 2 channels, 44100 Hz (0xAC44), 16 bits, as the bytes of a format chunk
IsCdProfile(b) ==
    /\ SubSeq(b, 1, 2) = <<1, 0>>
    /\ SubSeq(b, 3, 4) = <<2, 0>>
    /\ SubSeq(b, 5, 8) = <<68, 172, 0, 0>>
    /\ SubSeq(b, 15, 16) = <<16, 0>>

WrongProfile(f) == Complete(f) /\ ~IsCdProfile(CarriedFmt(f))

\* C5: parse_wav accepts an input only if the format chunk it ends with
\* carries tag 1, 2 channels, 44100 Hz and 16 bits; a container that holds
\* both chunks and carries another profile fails with the unsupported-format
\* diagnostic, and none of its bytes are appended to the image.
C5_ProfileOnly ==
    /\ \A k \in 1..Len(index_times) :
          index_times[k] # -1 =>
              /\ Complete(Catalogue[argv[k]])
              /\ IsCdProfile(CarriedFmt(Catalogue[argv[k]]))
    /\ pc \in {"seek", "copy", "pad"} =>
          (audioFormat = 1 /\ numChannels = 2 /\ sampleRate = 44100 /\ bitsPerSample = 16)
    /\ \A k \in 1..ntracks :
          WrongProfile(Catalogue[argv[k]]) =>
              /\ \A n \in 1..Len(image) : image[n].src # k
              /\ (pc = "done" /\ opened # <<>> /\ opened[Len(opened)] = k)
                    => (exit_status = 1 /\ err = "unsupported_format")
              /\ (pc \notin {"riff", "scan", "check"} /\ opened # <<>>
                    /\ opened[Len(opened)] = k) => pc = "done"

C5_Witness ==
    /\ pc = "done"
    /\ err = "unsupported_format"
    /\ opened = <<1, 2>>
    /\ sampleRate = 48000 /\ audioFormat = 1 /\ numChannels = 2 /\ bitsPerSample = 16
    /\ ExtLen(image) = 4704

\* ------------------------------------------------------ truncated payload
\* f holds both chunks and its data chunk declares more bytes than the file
\* has left after the chunk header
TruncatedData(f) ==
    /\ Complete(f)
    /\ LET k == LastIx(f.chunks, IsData)
       IN  ChunkStart(f.chunks, k) + CHDR + f.chunks[k].csize > f.flen

\* input k is the one main() is at, or ended at
Current(k) == opened # <<>> /\ opened[Len(opened)] = k

\* C6 as claimed: a container whose data chunk declares more bytes than remain
\* in the file ends with the short read diagnostic and a non-zero status, never
\* with another diagnostic.
C6_AlwaysShortRead ==
    \A k \in 1..ntracks :
        (TruncatedData(Catalogue[argv[k]]) /\ Current(k) /\ pc = "done") =>
            (exit_status = 1 /\ err = "short_read")

\* C6, amended: a container whose data chunk declares more bytes than remain
\* in the file is never processed to its end and the run exits non-zero; when
\* it carries the CD profile, so that parse_wav accepts it, the run ends with
\* the short read diagnostic of the copy loop unless the seek to the payload or
\* a write to the image fails first; when it carries another profile the run
\* ends with the unsupported-format diagnostic before any payload is read.
C6_TruncatedPayload ==
    \A k \in 1..ntracks :
        (TruncatedData(Catalogue[argv[k]]) /\ Current(k)) =>
            /\ pc \in {"riff", "scan", "check", "seek", "copy", "done"}
            /\ pc = "done" => exit_status = 1
            /\ (pc = "done" /\ IsCdProfile(CarriedFmt(Catalogue[argv[k]]))
                  /\ err \notin {"seek", "write"}) => err = "short_read"
            /\ (pc = "done" /\ ~IsCdProfile(CarriedFmt(Catalogue[argv[k]]))) =>
                  (err = "unsupported_format" /\ index_times[k] = -1
                     /\ \A n \in 1..Len(image) : image[n].src # k)
            /\ err = "short_read" => (index_times[k] # -1 /\ remaining > 0)

C6_Witness ==
    /\ pc = "done"
    /\ exit_status = 1
    /\ err = "short_read"
    /\ argv = <<7>>
    /\ data_size = 10000
    /\ ExtLen(image) = 8192

\* ---------------------------------------------------------- exit status
\* every input holds both chunks with the CD profile and all of its payload
AllInputsGood ==
    \A k \in 1..ntracks :
        LET f == Catalogue[argv[k]]
        IN  Complete(f) /\ IsCdProfile(CarriedFmt(f)) /\ ~TruncatedData(f)

\* every input was opened, accepted and appended with its padding, and the cue
\* sheet was written without an error
RunWentWell ==
    /\ ntracks >= 1
    /\ AllInputsGood
    /\ opened = [k \in 1..ntracks |-> k]
    /\ ExtLen(image) = SectorsBefore(ntracks + 1) * SECTOR
    /\ fcue = "created" /\ ~cue_lost

\* C7: main() returns 0 exactly when every input was opened, parsed, validated
\* and copied with its padding and the cue sheet was written without error;
\* every failure, a failed write to the cue sheet included, returns non-zero.
C7_ExitStatus ==
    pc = "done" =>
        /\ exit_status \in {0, 1}
        /\ (exit_status = 0) <=> RunWentWell

\* ----------------------------------------------------- order and abort
\* C8: inputs are opened in argument order, each once; after a failure no
\* later input is opened or appended and disc.cue is neither created nor
\* written; disc.cue is created only when every input is completely appended;
\* with no inputs neither disc.bin nor disc.cue is created.
C8_AbortOnFirstError ==
    /\ opened = [k \in 1..Len(opened) |-> k]
    /\ \A n \in 1..Len(image) : image[n].src \in 0..Len(opened)
    /\ \A a, b \in 1..Len(image) :
          (a < b /\ image[a].src > 0 /\ image[b].src > 0) => image[a].src <= image[b].src
    /\ exit_status = 1 =>
          /\ fcue = "absent" /\ cue = <<>>
          /\ Len(opened) <= i + 1
    /\ (~CuePhase /\ ~Succeeded) => Len(opened) <= i + 1
    /\ (fcue = "created" \/ cue # <<>>) =>
          /\ Len(opened) = ntracks
          /\ AllInputsGood
          /\ \A k \in 1..ntracks : index_times[k] # -1
          /\ ExtLen(image) = SectorsBefore(ntracks + 1) * SECTOR
    /\ ntracks = 0 =>
          /\ fbin = "absent" /\ fcue = "absent" /\ image = <<>> /\ cue = <<>>
          /\ pc = "done" => (exit_status = 1 /\ err = "usage")

C8_Witness ==
    /\ pc = "done"
    /\ exit_status = 1
    /\ err = "short_read"
    /\ argv = <<7, 1>>
    /\ opened = <<1>>
    /\ ExtLen(image) = 8192
    /\ fbin = "created" /\ fcue = "absent"

\* ------------------------------------------------------------ cue sheet
RECURSIVE ExpectedTracks(_)
ExpectedTracks(n) ==
    IF n = 0 THEN <<>>
    ELSE ExpectedTracks(n - 1)
            \o <<TrackLine(n)>>
            \o (IF n = 1 THEN <<PregapLine>> ELSE <<>>)
            \o <<IndexLine(SectorsBefore(n))>>

\* C9: after a run that returns 0 with n >= 1 tracks, disc.cue is the FILE
\* line, then for each track in input order its TRACK line and one INDEX 01
\* line with the timecode of its start sector; one PREGAP 00:02:00 line in
\* all, between TRACK 01 and its INDEX 01, with no bytes for it in the image.
C9_CueSheet ==
    (Succeeded /\ ntracks >= 1) =>
        /\ cue = <<FileLine>> \o ExpectedTracks(ntracks)
        /\ Cardinality({n \in 1..Len(cue) : cue[n] = PregapLine}) = 1
        /\ index_times[1] = 0
        /\ ExtLen(image) = SectorsBefore(ntracks + 1) * SECTOR

\* ----------------------------------------------------------- chunk scan
\* main() is inside input i + 1, or ended there
InTrack ==
    \/ pc \in {"riff", "scan", "check", "seek", "copy", "pad"}
    \/ pc = "done" /\ exit_status = 1 /\ i < ntracks /\ Current(i + 1)

\* the chunk whose header was the n-th the scan read
ScannedChunk(n) == HeaderAt(wav, scanned[n])

\* the first n headers read hold a format chunk and a data chunk
SeenBoth(n) ==
    /\ \E a \in 1..n : ScannedChunk(a).tag = "fmt "
    /\ \E b \in 1..n : ScannedChunk(b).tag = "data"

\* the same, the format chunk declaring at least 16 bytes
SeenBoth16(n) ==
    /\ \E a \in 1..n : IsFmt16(ScannedChunk(a))
    /\ \E b \in 1..n : IsData(ScannedChunk(b))

\* C10 as claimed: no chunk header is read once a format chunk and a data
\* chunk have been seen.
C10_StopsWhenBothSeen ==
    InTrack => \A n \in 1..Len(scanned) : ~SeenBoth(n - 1)

\* C10, amended: the scan stops as soon as a format chunk declaring at least
\* 16 bytes and a data chunk have been seen (a shorter format chunk is skipped
\* and does not count) and reads no chunk after that; when the end of the file
\* is reached where a chunk header is expected and one of the two has not been
\* seen, parsing fails with the missing-chunk diagnostic; every chunk passed
\* moves the cursor by 8, its declared size, and one pad byte when the size is
\* odd, whatever its type.
C10_ChunkScan ==
    InTrack =>
        /\ \A n \in 1..Len(scanned) : ~SeenBoth16(n - 1)
        /\ pc = "scan" => ~SeenBoth16(Len(scanned))
        /\ pc \in {"seek", "copy", "pad"} => SeenBoth16(Len(scanned))
        /\ scanned # <<>> => scanned[1] = HDR12
        /\ \A n \in 1..(Len(scanned) - 1) :
              LET c == ScannedChunk(n)
              IN  scanned[n + 1] = scanned[n] + CHDR + c.csize
                                      + (IF c.csize % 2 = 1 THEN 1 ELSE 0)
        /\ (scanned # <<>> /\ (pc = "scan" \/ (pc = "check" /\ SeenBoth16(Len(scanned))))) =>
              LET c == ScannedChunk(Len(scanned))
              IN  cursor = scanned[Len(scanned)] + CHDR + c.csize
                              + (IF c.csize % 2 = 1 THEN 1 ELSE 0)
        /\ (pc = "check" /\ ~SeenBoth16(Len(scanned))) => cursor + CHDR > wav.flen
        /\ (pc = "done" /\ ~SeenBoth16(Len(scanned))
              /\ err \notin {"riff_header", "not_riff_wave", "parse_io"}) =>
              err = "missing_chunk"
        /\ err = "missing_chunk" =>
              (~SeenBoth16(Len(scanned)) /\ cursor + CHDR > wav.flen)

C10_Witness ==
    /\ pc = "check"
    /\ argv[i + 1] = 3
    /\ scanned = <<12, 26, 50, 76>>
    /\ cursor = 8278
    /\ got_fmt /\ got_data

====
